---- MODULE Spec2Model ----
(***************************************************************************)
(* Model of the DDoS protection service of src/main.py: the per-IP rate    *)
(* limiter (check_rate_limit), the threat-intelligence lookup              *)
(* (check_threat_intel), the firewall actuator                             *)
(* (add_to_cloudflare_blocklist) and the verification decision             *)
(* (verify_client), over a key-value store whose keys carry a TTL.         *)
(*                                                                         *)
(* Every await of the source on the store or on an external service is one *)
(* atomic step of a request task; tasks interleave between these steps.    *)
(* Time is counted in seconds; a key is live while its remaining TTL is    *)
(* positive.                                                               *)
(***************************************************************************)
EXTENDS Integers, Sequences, FiniteSets, TLC

(* ---- program constants ------------------------------------------------ *)
RATE_LIMIT_WINDOW == 60
RATE_LIMIT_MAX_REQUESTS == 1000
RISK_SCORE_BLOCK == 70
CAPTCHA_COUNT == 100
JS_CHALLENGE_COUNT == 50
THREAT_BLOCK_TTL == 3600
VERIFIED_TTL == 3600
HTTP_OK == 200

(* ---- bounds of the model ---------------------------------------------- *)
NumTasks == 2
MaxTicks == 1
MaxRequests == 2

Tasks == 1..NumTasks
IPs == {"10.0.0.1"}
None == "none"

(* Steps by which the clock advances: inside a window, a full window, and  *)
(* a full registry TTL.                                                    *)
TickSteps == {RATE_LIMIT_WINDOW \div 2, RATE_LIMIT_WINDOW, VERIFIED_TTL}

(* Risk scores the threat-intelligence service holds for an IP, on either  *)
(* side of the blocking threshold, and the ways one lookup can end: status *)
(* 0 stands for a timeout or transport exception, 500 for a non-200        *)
(* answer, which still carries a body; a timeout carries none.             *)
RiskScores == {RISK_SCORE_BLOCK, RISK_SCORE_BLOCK + 1}
Statuses == {HTTP_OK, 500, 0}
NoResponse == [status |-> 0, risk_score |-> 0]

(* Stored counters the service is started from (see Init).                 *)
InitCounts ==
  {0, JS_CHALLENGE_COUNT - 1, CAPTCHA_COUNT - 1,
   RATE_LIMIT_MAX_REQUESTS - 1, RATE_LIMIT_MAX_REQUESTS}

VARIABLES
  ratelimit,   \* ratelimit:<ip>  -> [val, ttl]
  verified,    \* verified:<ip>   -> [val, ttl]
  blocked,     \* blocked:<ip>    -> [val, ttl]
  intel,       \* ip -> risk score the threat-intelligence service holds for it
  ticks,       \* number of clock advances so far
  requests,    \* number of requests received so far
  pc,          \* task -> position in verify_client
  ip,          \* task -> request.clientIP
  resp,        \* task -> response of the threat-intelligence lookup
  count,       \* task -> local variable count of check_rate_limit / verify_client
  result,      \* task -> verification_type returned
  ops,         \* task -> store operations and external calls made by the request
  rlret,       \* what the last sequential call of check_rate_limit returned
  streak,      \* admitted calls in a row with less than a window between them
  quietFor,    \* seconds since the last admitted call, up to a window
  sinceCall,   \* seconds since the last call of check_rate_limit, up to a window
  age,         \* seconds since the first call of the streak, up to two windows
  flag,        \* task -> the "verified" field of the response
  fwrules,     \* target -> number of block rules created in the firewall, counted
               \* in the runs whose endpoints are called one at a time
  now,         \* the clock of detect_anomalies, in milliseconds
  series,      \* the evaluated metric's time series
  avgseries,   \* the {metric}:avg series
  stdseries,   \* the {metric}:std series
  evalret,     \* what the last detect_anomalies call returned
  evalerr,     \* TRUE when the last detect_anomalies call raised
  evals,       \* number of detect_anomalies calls made
  challenged,  \* target -> the challenged:<target> entry
  monitored,   \* target -> the monitored:<target> entry
  swept,       \* what the last get_anomalies call saw, returned and blocked
  mitigated,   \* the last add_mitigation call: its request and its answer
  vret,        \* the response of the last whole verify_client call
  called,      \* the endpoint called last
  reachable    \* FALSE when the last call was a detect_anomalies or get_anomalies
               \* call that the store did not answer (the connection failed)

\* state that neither verify_client nor check_rate_limit touches
other == <<now, series, avgseries, stdseries, evalret, evalerr, evals,
           challenged, monitored, swept, mitigated, vret, called, reachable>>

vars == <<ratelimit, verified, blocked, intel, ticks, requests, pc, ip, resp, count,
          result, ops, rlret, streak, quietFor, sinceCall, age, flag, fwrules,
          other>>

\* the observation of a single sequential caller of check_rate_limit
caller == <<rlret, streak, quietFor, sinceCall, age>>

store == <<ratelimit, verified, blocked>>
locals == <<pc, ip, resp, count, result, ops, flag>>

(* ---- the key-value store ---------------------------------------------- *)
NoCounter == [val |-> 0, ttl |-> 0]
NoEntry == [val |-> None, ttl |-> 0]

Live(e) == e.ttl > 0

\* An optional value (Python's None or a value): the empty set or a singleton
Nil == {}
Some(x) == {x}
Value(o) == CHOOSE x \in o : TRUE

\* GET key: the value of a live key, nil otherwise
Get(e) == IF Live(e) THEN Some(e.val) ELSE Nil

\* SET key value EX ttl
SetEx(v, t) == [val |-> v, ttl |-> t]

\* bug: the expiry is set only when the key is created (a fixed window)
IncrExpire_FixedWindow(e, window) ==
  [val |-> (IF Live(e) THEN e.val ELSE 0) + 1,
   ttl |-> IF Live(e) THEN e.ttl ELSE window]

\* MULTI; INCR key; EXPIRE key window; EXEC
IncrExpire(e, window) ==
  [val |-> (IF Live(e) THEN e.val ELSE 0) + 1, ttl |-> window]

\* d seconds pass: a key whose TTL runs out is deleted
Expire(e, d, absent) == IF e.ttl > d THEN [e EXCEPT !.ttl = @ - d] ELSE absent

(* ---- check_rate_limit -------------------------------------------------- *)
\* count = int(count) if count else 0
ParseCount(raw) == IF raw = Nil THEN 0 ELSE Value(raw)

\* bug: the limit itself is still admitted
IsLimited_OffByOne(c) == c > RATE_LIMIT_MAX_REQUESTS

\* if count >= RATE_LIMIT_MAX_REQUESTS: return True, count
IsLimited(c) == c >= RATE_LIMIT_MAX_REQUESTS

\* return False, count + 1
AdmittedCount(c) == c + 1

(* ---- check_threat_intel ------------------------------------------------ *)
\* bug: the body of any answer is used, whatever its status
CheckThreatIntel_AnyStatus(r) == IF r.status # 0 THEN Some(r.risk_score) ELSE Nil

\* the ThreatIntelResult of a 200 response, None otherwise
CheckThreatIntel(r) == IF r.status = HTTP_OK THEN Some(r.risk_score) ELSE Nil

(* ---- verify_client ----------------------------------------------------- *)
\* bug: the entry is compared with a value that is never stored
IsVerified_WrongValue(v) == v = Some("verified")

\* if is_verified:
IsVerified(v) == v # Nil

\* bug: the threshold itself blocks
ThreatBlocks_Inclusive(ti) == ti # Nil /\ Value(ti) >= RISK_SCORE_BLOCK

\* if threat_intel and threat_intel.risk_score > 70
ThreatBlocks(ti) == ti # Nil /\ Value(ti) > RISK_SCORE_BLOCK

\* bug: the thresholds themselves escalate
Friction_Inclusive(c) ==
  IF c >= CAPTCHA_COUNT THEN "captcha_required"
  ELSE IF c >= JS_CHALLENGE_COUNT THEN "js_challenge"
  ELSE "cookie"

\* progressive verification based on request count
Friction(c) ==
  IF c > CAPTCHA_COUNT THEN "captcha_required"
  ELSE IF c > JS_CHALLENGE_COUNT THEN "js_challenge"
  ELSE "cookie"

\* what a request has done so far
Did(t, op) == \E k \in DOMAIN ops[t] : ops[t][k] = op
Times(t, op) == Cardinality({k \in DOMAIN ops[t] : ops[t][k] = op})

TypeOK ==
  /\ ratelimit \in [IPs -> [val : Nat, ttl : 0..RATE_LIMIT_WINDOW]]
  /\ \A i \in IPs : verified[i].ttl \in 0..VERIFIED_TTL
  /\ \A i \in IPs : blocked[i].ttl \in 0..THREAT_BLOCK_TTL
  /\ ticks \in 0..MaxTicks
  /\ requests \in 0..MaxRequests
  /\ pc \in [Tasks -> {"idle", "rl_get", "rl_incr", "threat_intel", "cf_block",
                       "set_blocked", "set_verified", "done", "raised"}]
  /\ flag \in [Tasks -> BOOLEAN]
  /\ fwrules \in [IPs -> Nat]

\* no sweep, mitigation or whole verification has been called
NoSweep == [det |-> <<>>, anomalies |-> <<>>, calls |-> <<>>, raised |-> FALSE]
NoMitigation == [req |-> <<>>, outcome |-> None, ret |-> {}, raised |-> FALSE]
NoVerify == [client |-> None, verification_type |-> None, verified |-> FALSE]

\* the operator endpoints are not part of the run
NoOperator ==
  /\ challenged = [i \in IPs |-> NoEntry]
  /\ monitored = [i \in IPs |-> NoEntry]
  /\ swept = NoSweep
  /\ mitigated = NoMitigation
  /\ vret = NoVerify
  /\ called = None

\* the anomaly detector is not part of the run
NoDetector ==
  /\ now = 0
  /\ series = [exists |-> FALSE, den |-> 1, samples |-> <<>>]
  /\ avgseries = <<>>
  /\ stdseries = <<>>
  /\ evalret = {}
  /\ evalerr = FALSE
  /\ evals = 0
  /\ reachable = TRUE

\* no request in flight, no call of check_rate_limit made
InitTasks ==
  /\ ticks = 0
  /\ requests = 0
  /\ pc = [t \in Tasks |-> "idle"]
  /\ ip = [t \in Tasks |-> None]
  /\ resp = [t \in Tasks |-> NoResponse]
  /\ count = [t \in Tasks |-> 0]
  /\ result = [t \in Tasks |-> None]
  /\ ops = [t \in Tasks |-> <<>>]
  /\ flag = [t \in Tasks |-> FALSE]
  /\ rlret = [limited |-> FALSE, count |-> 0]
  /\ streak = 0
  /\ quietFor = RATE_LIMIT_WINDOW
  /\ sinceCall = RATE_LIMIT_WINDOW
  /\ age = 0

(* The store the service starts from.  Either empty, or the store left by  *)
(* c requests for one IP made in the same second: c-1 of them (c of them   *)
(* when no verified entry is left) were answered by the threat service     *)
(* with a score above the threshold and wrote blocked:<ip>; for a verified *)
(* entry the remaining request read the counter before the others,         *)
(* incremented it after them and then wrote verified:<ip>.                 *)
Init ==
  /\ \E c \in InitCounts, v \in BOOLEAN :
       /\ c = 0 => ~v
       /\ ratelimit = [i \in IPs |->
            IF c = 0 THEN NoCounter ELSE SetEx(c, RATE_LIMIT_WINDOW)]
       /\ verified = [i \in IPs |->
            IF v THEN SetEx("cookie", VERIFIED_TTL) ELSE NoEntry]
       /\ blocked = [i \in IPs |->
            IF c = 0 THEN NoEntry ELSE SetEx("threat_intel", THREAT_BLOCK_TTL)]
  /\ intel \in [IPs -> RiskScores]
  /\ fwrules = [i \in IPs |-> 0]
  /\ NoDetector
  /\ NoOperator
  /\ InitTasks

\* No returned result waits to be handed over.  Handing a result over
\* touches no shared state, so taking that step first loses no behaviour.
Quiet == \A u \in Tasks : pc[u] # "done"

\* bug: the threat block is reported as a verified client
VerifiedField_BlockedPasses(r) ==
  CASE r = "cached" -> TRUE
    [] r = "rate_limited" -> FALSE
    [] r = "threat_intel_blocked" -> TRUE
    [] r = "captcha_required" -> FALSE
    [] r = "js_challenge" -> FALSE
    [] r = "cookie" -> TRUE

\* the "verified" field of each return statement of verify_client
VerifiedField(r) ==
  CASE r = "cached" -> TRUE
    [] r = "rate_limited" -> FALSE
    [] r = "threat_intel_blocked" -> FALSE
    [] r = "captcha_required" -> FALSE
    [] r = "js_challenge" -> FALSE
    [] r = "cookie" -> TRUE

\* the request returns verification_type r
Return(t, r) ==
  /\ pc' = [pc EXCEPT ![t] = "done"]
  /\ result' = [result EXCEPT ![t] = r]
  /\ flag' = [flag EXCEPT ![t] = VerifiedField(r)]

Goto(t, l) ==
  /\ pc' = [pc EXCEPT ![t] = l]
  /\ UNCHANGED <<result, flag>>

\* an exception leaves the handler uncaught
Raise(t) ==
  /\ pc' = [pc EXCEPT ![t] = "raised"]
  /\ UNCHANGED <<result, flag>>

(* ---- add_to_cloudflare_blocklist --------------------------------------- *)
\* How the firewall API can answer: the rule is created (200 or 201), the
\* request is refused with another status, or the call raises.
ActuatorOutcomes == {"created", "refused", "exception"}

\* the firewall after the call: a rule only when it was created
CreateRule(rules, target, outcome) ==
  IF outcome = "created" THEN [rules EXCEPT ![target] = @ + 1] ELSE rules

\* what the call returns (True, False), Nil when it raises
AddToCloudflareBlocklist(outcome) ==
  CASE outcome = "created" -> Some(TRUE)
    [] outcome = "refused" -> Some(FALSE)
    [] outcome = "exception" -> Some(FALSE)

Log(t, op) == ops' = [ops EXCEPT ![t] = Append(@, op)]

\* bug: the request is counted before the cache is consulted
VerifyGetVerified_CountsFirst(t) ==
  /\ Quiet
  /\ pc[t] = "idle"
  /\ \A u \in Tasks : u < t => pc[u] # "idle"
  /\ requests < MaxRequests
  /\ requests' = requests + 1
  /\ \E i \in IPs :
       /\ ip' = [ip EXCEPT ![t] = i]
       /\ ops' = [ops EXCEPT ![t] = <<"get_verified">>]
       /\ ratelimit' = [ratelimit EXCEPT ![i] = IncrExpire(@, RATE_LIMIT_WINDOW)]
       /\ IF IsVerified(Get(verified[i]))
            THEN Return(t, "cached")
            ELSE Goto(t, "rl_get")
  /\ UNCHANGED <<verified, blocked, intel, ticks, resp, count, caller, fwrules, other>>

(* A request arrives and verify_client reads verified:<ip>.                *)
VerifyGetVerified(t) ==
  /\ Quiet
  /\ pc[t] = "idle"
  /\ \A u \in Tasks : u < t => pc[u] # "idle"
  /\ requests < MaxRequests
  /\ requests' = requests + 1
  /\ \E i \in IPs :
       /\ ip' = [ip EXCEPT ![t] = i]
       /\ ops' = [ops EXCEPT ![t] = <<"get_verified">>]
       /\ IF IsVerified(Get(verified[i]))
            THEN Return(t, "cached")
            ELSE Goto(t, "rl_get")
  /\ UNCHANGED <<store, intel, ticks, resp, count, caller, fwrules, other>>

\* bug: a refused call still pushes the expiry of the counter
RateLimitGet_RefreshesRefused(t) ==
  /\ Quiet
  /\ pc[t] = "rl_get"
  /\ LET c == ParseCount(Get(ratelimit[ip[t]])) IN
       /\ count' = [count EXCEPT ![t] = c]
       /\ IF IsLimited(c)
            THEN /\ Return(t, "rate_limited")
                 /\ ratelimit' = [ratelimit EXCEPT
                       ![ip[t]] = SetEx(@.val, RATE_LIMIT_WINDOW)]
            ELSE /\ Goto(t, "rl_incr")
                 /\ UNCHANGED ratelimit
  /\ Log(t, "get_ratelimit")
  /\ UNCHANGED <<verified, blocked, intel, ticks, requests, ip, resp, caller, fwrules, other>>

(* check_rate_limit: count = await redis_client.get(key), and the test of  *)
(* the limit.                                                              *)
RateLimitGet(t) ==
  /\ Quiet
  /\ pc[t] = "rl_get"
  /\ LET c == ParseCount(Get(ratelimit[ip[t]])) IN
       /\ count' = [count EXCEPT ![t] = c]
       /\ IF IsLimited(c) THEN Return(t, "rate_limited") ELSE Goto(t, "rl_incr")
  /\ Log(t, "get_ratelimit")
  /\ UNCHANGED <<store, intel, ticks, requests, ip, resp, caller, fwrules, other>>

(* check_rate_limit: the pipeline incr + expire, and return False, count+1 *)
RateLimitIncr(t) ==
  /\ Quiet
  /\ pc[t] = "rl_incr"
  /\ ratelimit' = [ratelimit EXCEPT ![ip[t]] = IncrExpire(@, RATE_LIMIT_WINDOW)]
  /\ count' = [count EXCEPT ![t] = AdmittedCount(@)]
  /\ Goto(t, "threat_intel")
  /\ Log(t, "incr_ratelimit")
  /\ UNCHANGED <<verified, blocked, intel, ticks, requests, ip, resp, caller, fwrules, other>>

(* threat_intel = await check_threat_intel(ip), and the branch on it; when *)
(* no block applies, the progressive verification up to its store write.   *)
ThreatIntel(t) ==
  /\ Quiet
  /\ pc[t] = "threat_intel"
  /\ \E st \in Statuses :
       LET r == [status |-> st,
                 risk_score |-> IF st = 0 THEN 0 ELSE intel[ip[t]]]
           ti == CheckThreatIntel(r)
       IN  /\ resp' = [resp EXCEPT ![t] = r]
           /\ IF ThreatBlocks(ti) THEN Goto(t, "cf_block")
              ELSE IF Friction(count[t]) = "cookie" THEN Goto(t, "set_verified")
              ELSE Return(t, Friction(count[t]))
  /\ Log(t, "threat_intel")
  /\ UNCHANGED <<store, intel, ticks, requests, ip, count, caller, fwrules, other>>

(* await add_to_cloudflare_blocklist(ip): the rule is created or the call  *)
(* fails; verify_client ignores the outcome.                               *)
CloudflareBlock(t) ==
  /\ Quiet
  /\ pc[t] = "cf_block"
  /\ \E outcome \in ActuatorOutcomes :
       LET ret == AddToCloudflareBlocklist(outcome) IN
         IF ret = Nil THEN Raise(t) ELSE Goto(t, "set_blocked")
  /\ Log(t, "cf_block")
  /\ UNCHANGED <<store, intel, ticks, requests, ip, resp, count, caller, fwrules,
                 other>>

(* await redis_client.set(f"blocked:{ip}", "threat_intel", ex=3600)        *)
SetBlocked(t) ==
  /\ Quiet
  /\ pc[t] = "set_blocked"
  /\ blocked' = [blocked EXCEPT ![ip[t]] = SetEx("threat_intel", THREAT_BLOCK_TTL)]
  /\ Return(t, "threat_intel_blocked")
  /\ Log(t, "set_blocked")
  /\ UNCHANGED <<ratelimit, verified, intel, ticks, requests, ip, resp, count, caller, fwrules, other>>

(* await redis_client.set(f"verified:{ip}", "cookie", ex=3600)             *)
SetVerified(t) ==
  /\ Quiet
  /\ pc[t] = "set_verified"
  /\ verified' = [verified EXCEPT ![ip[t]] = SetEx("cookie", VERIFIED_TTL)]
  /\ Return(t, "cookie")
  /\ Log(t, "set_verified")
  /\ UNCHANGED <<ratelimit, blocked, intel, ticks, requests, ip, resp, count, caller, fwrules, other>>

(* The response {"verified": ..., "verification_type": result} leaves the  *)
(* handler and the task is free for the next request.                      *)
Respond(t) ==
  /\ pc[t] = "done"
  /\ pc' = [pc EXCEPT ![t] = "idle"]
  /\ ip' = [ip EXCEPT ![t] = None]
  /\ resp' = [resp EXCEPT ![t] = NoResponse]
  /\ count' = [count EXCEPT ![t] = 0]
  /\ result' = [result EXCEPT ![t] = None]
  /\ ops' = [ops EXCEPT ![t] = <<>>]
  /\ flag' = [flag EXCEPT ![t] = FALSE]
  /\ UNCHANGED <<store, intel, ticks, requests, caller, fwrules, other>>

(* d seconds pass in the store.                                            *)
Advance(d) ==
  /\ ratelimit' = [i \in IPs |-> Expire(ratelimit[i], d, NoCounter)]
  /\ verified' = [i \in IPs |-> Expire(verified[i], d, NoEntry)]
  /\ blocked' = [i \in IPs |-> Expire(blocked[i], d, NoEntry)]

Tick ==
  /\ Quiet
  /\ ticks < MaxTicks
  /\ ticks' = ticks + 1
  /\ \E d \in TickSteps : Advance(d)
  /\ UNCHANGED <<intel, requests, locals, caller, fwrules, other>>

Next ==
  \/ \E t \in Tasks : VerifyGetVerified(t)
  \/ \E t \in Tasks : RateLimitGet(t)
  \/ \E t \in Tasks : RateLimitIncr(t)
  \/ \E t \in Tasks : ThreatIntel(t)
  \/ \E t \in Tasks : CloudflareBlock(t)
  \/ \E t \in Tasks : SetBlocked(t)
  \/ \E t \in Tasks : SetVerified(t)
  \/ \E t \in Tasks : Respond(t)
  \/ Tick

Spec == Init /\ [][Next]_vars

(* ======================================================================= *)
(* Properties                                                              *)
(* ======================================================================= *)

(* C1: a request that finds a live verified:<ip> entry returns             *)
(* verified/cached, whatever the stored rate-limit counter and whatever    *)
(* score the threat-intelligence service holds for the IP.                 *)
C1_CachedTakesPrecedence ==
  [][\A t \in Tasks :
       (VerifyGetVerified(t) /\ Live(verified[ip'[t]]))
         => (pc'[t] = "done" /\ result'[t] = "cached")]_vars

\* a cached answer for an IP whose counter is at the limit and whose risk
\* score is above the blocking threshold
C1_Witness ==
  \E t \in Tasks :
    /\ pc[t] = "done" /\ result[t] = "cached"
    /\ Live(ratelimit[ip[t]])
    /\ ratelimit[ip[t]].val >= RATE_LIMIT_MAX_REQUESTS
    /\ intel[ip[t]] > RISK_SCORE_BLOCK

(* C2: under any interleaving of concurrent requests for one IP the stored *)
(* rate-limit counter never exceeds RATE_LIMIT_MAX_REQUESTS.               *)
C2_CounterCapped ==
  \A i \in IPs : ratelimit[i].val <= RATE_LIMIT_MAX_REQUESTS

(* C5: an admitted call of the rate limiter returns the value the stored   *)
(* counter has right after the call's own increment, also when other calls *)
(* for the same IP run between its read and its increment.                 *)
C5_ReturnsPostIncrement ==
  [][\A t \in Tasks :
       RateLimitIncr(t) => count'[t] = ratelimit'[ip[t]].val]_vars

(* C6: a request answered from a live verified entry stops there: no      *)
(* threat-intelligence call, no actuator call, no read, increment or       *)
(* expiry change of the rate-limit counter, no registry write.             *)
C6_CachedShortCircuits ==
  /\ [](\A t \in Tasks :
          (pc[t] = "done" /\ result[t] = "cached")
            => ops[t] = <<"get_verified">>)
  /\ [][\A t \in Tasks :
          (VerifyGetVerified(t) /\ Live(verified[ip'[t]]))
            => (pc'[t] = "done" /\ ratelimit' = ratelimit
                /\ verified' = verified /\ blocked' = blocked)]_vars

\* a cached answer while the counter of the IP is live and below the limit
C6_Witness ==
  \E t \in Tasks :
    /\ pc[t] = "done" /\ result[t] = "cached"
    /\ Live(ratelimit[ip[t]])
    /\ ratelimit[ip[t]].val < RATE_LIMIT_MAX_REQUESTS

(* C7: a request whose rate-limiter step reports limited=true returns      *)
(* unverified/rate_limited and does nothing more: no threat-intelligence   *)
(* call, no actuator call, no write to the verified, blocked or rate-limit *)
(* entry of the IP.                                                        *)
C7_RateLimitedStops ==
  /\ [](\A t \in Tasks :
          (pc[t] = "done" /\ Did(t, "get_ratelimit") /\ count[t] >= 1000
           /\ ~Did(t, "incr_ratelimit"))
            => (result[t] = "rate_limited"
                /\ ops[t] = <<"get_verified", "get_ratelimit">>))
  /\ [][\A t \in Tasks :
          (RateLimitGet(t) /\ Live(ratelimit[ip[t]])
           /\ ratelimit[ip[t]].val >= 1000)
            => (pc'[t] = "done" /\ result'[t] = "rate_limited"
                /\ ratelimit' = ratelimit /\ verified' = verified
                /\ blocked' = blocked)]_vars

\* a request refused by the rate limiter for an IP the threat service
\* would have had blocked
C7_Witness ==
  \E t \in Tasks :
    /\ pc[t] = "done" /\ result[t] = "rate_limited"
    /\ intel[ip[t]] > RISK_SCORE_BLOCK

\* the request got past the rate limiter and has its threat lookup behind it
Looked(t) == pc[t] = "done" /\ Did(t, "threat_intel")

(* C8: for a request past the cache and the rate limiter, a threat result  *)
(* with risk_score > 70 makes the request call the actuator's block        *)
(* exactly once, write blocked:<ip> = threat_intel with TTL 3600, write no *)
(* verified entry and return unverified/threat_intel_blocked; a risk_score *)
(* of 70 or less causes no block call and no blocked entry.                *)
C8_ThreatBlock ==
  \A t \in Tasks :
    (Looked(t) /\ resp[t].status = 200) =>
      IF resp[t].risk_score > 70
        THEN /\ result[t] = "threat_intel_blocked"
             /\ Times(t, "cf_block") = 1
             /\ Times(t, "set_blocked") = 1
             /\ blocked[ip[t]] = [val |-> "threat_intel", ttl |-> 3600]
             /\ ~Did(t, "set_verified")
        ELSE /\ ~Did(t, "cf_block")
             /\ ~Did(t, "set_blocked")
             /\ result[t] # "threat_intel_blocked"

\* a request blocked on a score of 71
C8_Witness ==
  \E t \in Tasks :
    /\ Looked(t) /\ resp[t] = [status |-> 200, risk_score |-> 71]
    /\ result[t] = "threat_intel_blocked"

\* the threat lookup of the request gave no reason to block
NoThreat(t) == resp[t].status # 200 \/ resp[t].risk_score <= 70

(* C9: when no threat block applies the outcome depends on the count the   *)
(* rate limiter returned alone: above 100 unverified/captcha_required,     *)
(* above 50 unverified/js_challenge, otherwise verified/cookie with        *)
(* verified:<ip> = cookie written with TTL 3600; the first two write no    *)
(* verified entry.                                                         *)
C9_GraduatedFriction ==
  \A t \in Tasks :
    (Looked(t) /\ NoThreat(t)) =>
      /\ count[t] > 100 => result[t] = "captcha_required"
      /\ (count[t] > 50 /\ count[t] <= 100) => result[t] = "js_challenge"
      /\ count[t] <= 50 =>
           /\ result[t] = "cookie"
           /\ Times(t, "set_verified") = 1
           /\ verified[ip[t]] = [val |-> "cookie", ttl |-> 3600]
      /\ count[t] > 50 => ~Did(t, "set_verified")

\* the last count that still earns the cookie
C9_Witness ==
  \E t \in Tasks :
    /\ Looked(t) /\ NoThreat(t)
    /\ count[t] = 50 /\ result[t] = "cookie"

(* C10: a timeout, a transport failure or a non-200 answer of the threat   *)
(* lookup counts as no threat signal: the request does not fail and does   *)
(* not block, and it returns the outcome the rate-limit count determines.  *)
C10_ThreatLookupFailureDegrades ==
  \A t \in Tasks :
    (Looked(t) /\ resp[t].status # 200) =>
      /\ ~Did(t, "cf_block") /\ ~Did(t, "set_blocked")
      /\ result[t] = (IF count[t] > 100 THEN "captcha_required"
                      ELSE IF count[t] > 50 THEN "js_challenge"
                      ELSE "cookie")

\* a failed lookup for an IP the service scores above the threshold
C10_Witness ==
  \E t \in Tasks :
    /\ Looked(t) /\ resp[t].status # 200
    /\ intel[ip[t]] > RISK_SCORE_BLOCK
    /\ result[t] = "js_challenge"

\* the verification types a response can carry
VerificationTypes == {"cached", "rate_limited", "threat_intel_blocked",
                      "captcha_required", "js_challenge", "cookie"}

(* C11: no verify call leaves its handler by an uncaught exception, and    *)
(* every response carries one of the six verification types with           *)
(* verified = true exactly for cached and cookie; this holds whether the   *)
(* threat lookup answers, fails or raises and whether the firewall call    *)
(* creates the rule, is refused or raises.                                 *)
C11_VerifyTotal ==
  \A t \in Tasks :
    /\ pc[t] # "raised"
    /\ pc[t] = "done" =>
         /\ result[t] \in VerificationTypes
         /\ flag[t] <=> result[t] \in {"cached", "cookie"}

\* a threat block answered after the firewall call, the lookup having
\* answered 200 with a score above the threshold
C11_Witness ==
  \E t \in Tasks :
    /\ pc[t] = "done" /\ result[t] = "threat_intel_blocked"
    /\ Did(t, "cf_block") /\ resp[t].status = HTTP_OK
    /\ ~flag[t]

(* ---- one client calling check_rate_limit sequentially ------------------ *)
(* The rate limiter alone, from an empty store: every call runs from its   *)
(* read to its return with no other call in between.                       *)
Client == CHOOSE i \in IPs : TRUE

Min(a, b) == IF a < b THEN a ELSE b

SeqInit ==
  /\ ratelimit = [i \in IPs |-> NoCounter]
  /\ verified = [i \in IPs |-> NoEntry]
  /\ blocked = [i \in IPs |-> NoEntry]
  /\ intel \in [IPs -> {RISK_SCORE_BLOCK}]
  /\ fwrules = [i \in IPs |-> 0]
  /\ NoDetector
  /\ NoOperator
  /\ InitTasks

(* check_rate_limit(redis_client, Client), whole.                          *)
CheckRateLimit ==
  /\ LET c == ParseCount(Get(ratelimit[Client])) IN
       IF IsLimited(c)
         THEN /\ rlret' = [limited |-> TRUE, count |-> c]
              /\ UNCHANGED <<ratelimit, streak, quietFor, age>>
         ELSE /\ ratelimit' = [ratelimit EXCEPT
                     ![Client] = IncrExpire(@, RATE_LIMIT_WINDOW)]
              /\ rlret' = [limited |-> FALSE, count |-> AdmittedCount(c)]
              /\ streak' = IF quietFor < RATE_LIMIT_WINDOW THEN streak + 1 ELSE 1
              /\ age' = IF quietFor < RATE_LIMIT_WINDOW THEN age ELSE 0
              /\ quietFor' = 0
  /\ sinceCall' = 0
  /\ UNCHANGED <<verified, blocked, intel, ticks, requests, locals, fwrules, other>>

(* d seconds pass between two calls.                                       *)
SeqTick ==
  /\ \E d \in TickSteps :
       /\ Advance(d)
       /\ quietFor' = Min(quietFor + d, RATE_LIMIT_WINDOW)
       /\ sinceCall' = Min(sinceCall + d, RATE_LIMIT_WINDOW)
       /\ age' = Min(age + d, 2 * RATE_LIMIT_WINDOW)
  /\ UNCHANGED <<intel, ticks, requests, locals, rlret, streak, fwrules, other>>

SeqNext == CheckRateLimit \/ SeqTick

SeqSpec == SeqInit /\ [][SeqNext]_vars

(* C3: sequential calls for one IP.  While fewer than 1000 calls have been *)
(* admitted in the running window a call is admitted; after exactly 1000   *)
(* admitted calls with less than 60s between them the next call within the *)
(* window returns limited=true with count 1000 and leaves the stored       *)
(* counter as it is; after 60s without an admitted call the counter has    *)
(* expired and the next call is admitted and returns count 1.              *)
C3_LimitAndFreshWindow ==
  [][CheckRateLimit =>
       /\ (quietFor < RATE_LIMIT_WINDOW /\ streak < 1000)
            => (~rlret'.limited /\ rlret'.count = streak + 1
                /\ ratelimit'[Client].val = streak + 1)
       /\ (quietFor < RATE_LIMIT_WINDOW /\ streak = 1000)
            => (rlret' = [limited |-> TRUE, count |-> 1000]
                /\ ratelimit' = ratelimit)
       /\ quietFor >= 60
            => (~Live(ratelimit[Client])
                /\ rlret' = [limited |-> FALSE, count |-> 1]
                /\ ratelimit'[Client].val = 1)]_vars

\* the 1001st call of a window has just been refused
C3_Witness ==
  /\ streak = 1000
  /\ rlret = [limited |-> TRUE, count |-> 1000]
  /\ sinceCall = 0
  /\ ratelimit[Client].val = 1000

(* C4 as stated: the counter of a client that keeps calling with less than *)
(* 60s between its calls is never reset; it is reset only once the client  *)
(* has made no call for a full window.                                     *)
C4_NoResetWhileCalling ==
  [][(Live(ratelimit[Client]) /\ ~Live(ratelimit'[Client]))
       => sinceCall' >= RATE_LIMIT_WINDOW]_vars

(* C4 as amended: every admitted call sets the expiry of the counter to    *)
(* RATE_LIMIT_WINDOW from that call, and the counter is reset exactly when *)
(* 60s have passed without an admitted call; calls refused with            *)
(* limited=true do not push the expiry.                                    *)
C4_RollingReset ==
  [][/\ (CheckRateLimit /\ ~rlret'.limited)
          => ratelimit'[Client].ttl = 60
     /\ (CheckRateLimit /\ rlret'.limited)
          => ratelimit'[Client].ttl = ratelimit[Client].ttl
     /\ (Live(ratelimit[Client]) /\ ~Live(ratelimit'[Client]))
          => quietFor' >= 60
     /\ quietFor' >= 60 => ~Live(ratelimit'[Client])]_vars

\* a counter two windows old, kept alive by calls less than a window apart
C4_Witness ==
  /\ age >= 2 * RATE_LIMIT_WINDOW
  /\ quietFor < RATE_LIMIT_WINDOW
  /\ Live(ratelimit[Client])
  /\ ratelimit[Client].val = streak
  /\ streak >= 3

(* ======================================================================= *)
(* detect_anomalies                                                        *)
(* ======================================================================= *)
WINDOW_SIZE == 60
ZSCORE_THRESHOLD == 3
MIN_DATA_POINTS == 30
\* milliseconds in a second
MS == 1000

\* longest window, in samples
MaxLen == 31
\* clock steps of a run
MaxClockSteps == 2
\* evaluations of a run
MaxEvals == 2

(* Sample values are the rationals num/den; one series has one den. A      *)
(* mean is kept as a rational, a standard deviation by its square, and a   *)
(* z-score by its sign and its square.                                     *)
SampleNums == {0, 10, 11}
SampleDens == {1, 10}
\* window lengths around MIN_DATA_POINTS
WindowLens == {0, MIN_DATA_POINTS - 1, MIN_DATA_POINTS, MaxLen}
\* how many of the newest samples carry the latest value
TailLens == {1, 3, 4}
\* how far the clock moves in one step (ms): to the next millisecond, or so
\* far that the oldest of MIN_DATA_POINTS samples lies on the window's edge
ClockSteps == {1, (WINDOW_SIZE \div 2 + 1) * MS}

Abs(x) == IF x < 0 THEN -x ELSE x

Sgn(x) == IF x < 0 THEN -1 ELSE IF x = 0 THEN 0 ELSE 1

RECURSIVE GCD(_, _)
GCD(a, b) == IF b = 0 THEN a ELSE GCD(b, a % b)

RECURSIVE IsPow2(_)
IsPow2(n) == n = 1 \/ (n > 1 /\ n % 2 = 0 /\ IsPow2(n \div 2))

\* p/q (q > 0) is an integer over a power of two: a short binary fraction
Dyadic(p, q) == IsPow2(q \div GCD(Abs(p), q))

RECURSIVE Root(_, _, _)
\* the largest r in lo..hi with r*r <= n
Root(n, lo, hi) ==
  IF lo = hi THEN lo
  ELSE LET mid == (lo + hi + 1) \div 2 IN
         IF mid * mid <= n THEN Root(n, mid, hi) ELSE Root(n, lo, mid - 1)

Isqrt(n) == Root(n, 0, IF n < 46340 THEN n ELSE 46340)

IsSquare(n) == Isqrt(n) * Isqrt(n) = n

RECURSIVE Sum(_)
Sum(values) == IF values = <<>> THEN 0 ELSE Head(values) + Sum(Tail(values))

(* ---- the store's time series -------------------------------------------- *)
\* TS.RANGE key from to: Nil when the key does not exist (ResponseError),
\* otherwise the samples with from <= ts <= to, oldest first
TsRange(s, from, to) ==
  IF ~s.exists THEN Nil
  ELSE Some(SelectSeq(s.samples, LAMBDA p : from <= p.ts /\ p.ts <= to))

\* TS.ADD key ts value on a series without duplicate policy: Nil when a
\* sample with this timestamp exists (the add is refused), else the series
\* with the sample appended
TsAdd(samples, ts, val) ==
  IF \E i \in 1..Len(samples) : samples[i].ts = ts THEN Nil
  ELSE Some(Append(samples, [ts |-> ts, val |-> val]))

(* ---- the statistics ------------------------------------------------------ *)
\* bug: 29 samples are taken as enough
EnoughData_Lenient(data) == Len(data) >= MIN_DATA_POINTS - 1

\* not (not data or len(data) < MIN_DATA_POINTS)
EnoughData(data) == data # <<>> /\ Len(data) >= MIN_DATA_POINTS

\* values = [point[1] for point in data], as numerators
Values(data) == [i \in 1..Len(data) |-> data[i].num]

\* current_value = data[-1][1]
CurrentValue(data) == data[Len(data)].num

\* bug: the latest value is stored instead of the mean
Mean_Latest(values, den) == [num |-> values[Len(values)], den |-> den]

\* avg = sum(values) / len(values)
Mean(values, den) == [num |-> Sum(values), den |-> Len(values) * den]

\* sum((x - avg) ** 2 for x in values), times len(values)^2
SqDev(values) ==
  LET N == Len(values)
      S == Sum(values)
  IN Sum([i \in 1..N |-> (N * values[i] - S) * (N * values[i] - S)])

\* std_dev ** 2 = sum((x - avg) ** 2) / len(values)
Variance(values, den) ==
  LET N == Len(values) IN [num |-> SqDev(values), den |-> N * N * N * den * den]

(* Python floats. A step of the computation is exact when its result is a  *)
(* short binary fraction, and then the float is the real number. When some *)
(* step is not, the float lies next to the real number, on either side.    *)
Exact(values, den) ==
  LET N == Len(values)
      S == Sum(values)
      D == SqDev(values)
      c == values[N]
      g == GCD(D, N * N * N * den * den)
      z2 == N * (N * c - S) * (N * c - S)
      h == GCD(z2, D)
  IN /\ \A i \in 1..N : Dyadic(values[i], den)
     /\ Dyadic(S, N * den)
     /\ Dyadic(D, N * N * N * den * den)
     /\ IsSquare(D \div g) /\ IsSquare((N * N * N * den * den) \div g)
     /\ D # 0 => /\ IsSquare(z2 \div h) /\ IsSquare(D \div h)
                 /\ Dyadic(Isqrt(z2 \div h), Isqrt(D \div h))

\* where the float result lies: on the real number (0), below it, above it
Roundings(values, den) == IF Exact(values, den) THEN {0} ELSE {-1, 0, 1}

(* zscore = 0 if std_dev == 0 else (current_value - avg) / std_dev, as the *)
(* sign, the square num/den of the real number and the side err on which   *)
(* the float's magnitude lies. In a window of equal values that is not     *)
(* exact, the computed std_dev is 0 or the size of the rounding residue of *)
(* avg, and the quotient is then the sign of that residue.                 *)
ZScore(values, rnd) ==
  LET N == Len(values)
      S == Sum(values)
      D == SqDev(values)
      dev == N * values[N] - S
  IN IF D = 0
       THEN [sign |-> rnd, num |-> rnd * rnd, den |-> 1, err |-> 0]
       ELSE [sign |-> Sgn(dev), num |-> N * dev * dev, den |-> D, err |-> rnd]

\* is_anomaly = abs(zscore) > ZSCORE_THRESHOLD
IsAnomaly(z) ==
  \/ z.num > ZSCORE_THRESHOLD * ZSCORE_THRESHOLD * z.den
  \/ z.num = ZSCORE_THRESHOLD * ZSCORE_THRESHOLD * z.den /\ z.err > 0

\* the AnomalyDetectionResult
DetectionResult(data, den, current_time, rnd) ==
  LET z == ZScore(Values(data), rnd) IN
    [timestamp |-> current_time,
     value |-> [num |-> CurrentValue(data), den |-> den],
     zscore |-> z,
     is_anomaly |-> IsAnomaly(z)]

\* state of the verification path and of the rate limiter
verifystate == <<ratelimit, verified, blocked, intel, requests, locals, caller,
                 fwrules>>

\* state of the operator endpoints
operators == <<challenged, monitored, swept, mitigated, vret, called>>

(* detect_anomalies(redis_client, metric), whole. The connection to the    *)
(* store is up or not: when it is not, ts().range raises a ConnectionError, *)
(* which the except ResponseError clause does not catch.                    *)
Evaluate ==
  /\ evals < MaxEvals
  /\ evals' = evals + 1
  /\ reachable' \in BOOLEAN
  /\ LET current_time == now
         got == TsRange(series, current_time - WINDOW_SIZE * MS, current_time)
     IN IF ~reachable'
          THEN /\ evalret' = Nil
               /\ evalerr' = TRUE
               /\ UNCHANGED <<avgseries, stdseries>>
        ELSE IF got = Nil \/ ~EnoughData(Value(got))
          THEN /\ evalret' = Nil
               /\ evalerr' = FALSE
               /\ UNCHANGED <<avgseries, stdseries>>
          ELSE LET data == Value(got)
                   a1 == TsAdd(avgseries, current_time,
                               Mean(Values(data), series.den))
                   a2 == TsAdd(stdseries, current_time,
                               Variance(Values(data), series.den))
               IN IF a1 = Nil
                    THEN /\ evalret' = Nil
                         /\ evalerr' = TRUE
                         /\ UNCHANGED <<avgseries, stdseries>>
                    ELSE IF a2 = Nil
                    THEN /\ evalret' = Nil
                         /\ evalerr' = TRUE
                         /\ avgseries' = Value(a1)
                         /\ UNCHANGED stdseries
                    ELSE /\ \E rnd \in Roundings(Values(data), series.den) :
                              evalret' = Some(DetectionResult(
                                 data, series.den, current_time, rnd))
                         /\ evalerr' = FALSE
                         /\ avgseries' = Value(a1)
                         /\ stdseries' = Value(a2)
  /\ UNCHANGED <<now, series, ticks, verifystate, operators>>

(* Time passes between two evaluations.                                    *)
EvalTick ==
  /\ ticks < MaxClockSteps
  /\ ticks' = ticks + 1
  /\ \E d \in ClockSteps : now' = now + d
  /\ UNCHANGED <<series, avgseries, stdseries, evalret, evalerr, evals, reachable,
               verifystate, operators>>

\* a series of n samples one second apart, the newest at time t: the
\* newest k hold b, the others a
Window(n, k, a, b, den, t) ==
  [exists |-> TRUE, den |-> den,
   samples |-> [i \in 1..n |->
      [ts |-> t - (n - i) * MS, num |-> IF i > n - k THEN b ELSE a]]]

(* The evaluated metric: a key that does not exist, or a series as         *)
(* track_requests leaves it.                                               *)
EvalInit ==
  /\ now = MaxLen * MS
  /\ \/ series = [exists |-> FALSE, den |-> 1, samples |-> <<>>]
     \/ \E n \in WindowLens, k \in TailLens, a \in SampleNums, b \in SampleNums,
           den \in SampleDens :
          series = Window(n, k, a, b, den, now)
  /\ avgseries = <<>>
  /\ stdseries = <<>>
  /\ evalret = Nil
  /\ evalerr = FALSE
  /\ evals = 0
  /\ reachable = TRUE
  /\ NoOperator
  /\ ratelimit = [i \in IPs |-> NoCounter]
  /\ verified = [i \in IPs |-> NoEntry]
  /\ blocked = [i \in IPs |-> NoEntry]
  /\ intel \in [IPs -> {RISK_SCORE_BLOCK}]
  /\ fwrules = [i \in IPs |-> 0]
  /\ InitTasks

EvalNext == Evaluate \/ EvalTick

EvalSpec == EvalInit /\ [][EvalNext]_vars

\* the samples detect_anomalies reads: those of the trailing window
InWindow ==
  IF series.exists
    THEN {i \in 1..Len(series.samples) :
            /\ series.samples[i].ts >= now - WINDOW_SIZE * MS
            /\ series.samples[i].ts <= now}
    ELSE {}

(* C12: an evaluation, answered by the store, of a metric with fewer than  *)
(* MIN_DATA_POINTS samples in the trailing window (an empty window and a   *)
(* missing key included) returns absent and writes no sample to the avg    *)
(* and std series.                                                         *)
C12_TooFewSamplesAbsent ==
  [][(Evaluate /\ reachable' /\ Cardinality(InWindow) < MIN_DATA_POINTS)
       => /\ evalret' = Nil /\ ~evalerr'
          /\ UNCHANGED <<avgseries, stdseries>>]_vars

\* an evaluation of a window of 29 samples after one of 30 samples
C12_Witness ==
  /\ evals = 2 /\ evalret = Nil /\ ~evalerr
  /\ Cardinality(InWindow) = MIN_DATA_POINTS - 1
  /\ Len(avgseries) = 1 /\ Len(stdseries) = 1

\* the values of the trailing window, oldest first
WindowNums ==
  LET w == SelectSeq(series.samples,
             LAMBDA p : p.ts >= now - WINDOW_SIZE * MS /\ p.ts <= now)
  IN [i \in 1..Len(w) |-> w[i].num]

\* N * sum(x^2) - sum(x)^2: N^2 times the population variance
VarN2(xs) ==
  Len(xs) * Sum([i \in 1..Len(xs) |-> xs[i] * xs[i]]) - Sum(xs) * Sum(xs)

\* N times (latest value - mean)
DevN(xs) == Len(xs) * xs[Len(xs)] - Sum(xs)

(* C13: the result of an evaluation is anomalous exactly when the latest   *)
(* value lies strictly more than 3.0 population standard deviations from   *)
(* the mean of the window; at exactly 3.0 it is not anomalous.             *)
C13_StrictThreshold ==
  [][(Evaluate /\ evalret' # Nil)
       => (Value(evalret').is_anomaly <=>
             DevN(WindowNums) * DevN(WindowNums)
               > ZSCORE_THRESHOLD * ZSCORE_THRESHOLD * VarN2(WindowNums))]_vars

(* C14: for a window whose samples all hold the same value the result has  *)
(* z-score exactly 0 and is not anomalous.                                 *)
C14_ConstantWindowZero ==
  [][(Evaluate /\ evalret' # Nil
        /\ \A i \in 1..Len(WindowNums) : WindowNums[i] = WindowNums[1])
       => /\ Value(evalret').zscore.sign = 0
          /\ Value(evalret').zscore.num = 0
          /\ ~Value(evalret').is_anomaly]_vars

(* C20: an evaluation that returns a result appends one sample holding the *)
(* mean of the window to the avg series and one holding its standard       *)
(* deviation (kept as the variance) to the std series, both at the         *)
(* evaluation timestamp, and leaves the evaluated series as it was; an     *)
(* evaluation of a window of at least MIN_DATA_POINTS samples returns a    *)
(* result unless the store refuses the timestamp.                          *)
C20_StatsAppended ==
  [][Evaluate =>
       /\ (Cardinality(InWindow) >= MIN_DATA_POINTS) => (evalret' # Nil \/ evalerr')
       /\ evalret' # Nil =>
            LET xs == WindowNums
                N == Len(xs)
                na == Len(avgseries)
                ns == Len(stdseries)
            IN /\ Len(avgseries') = na + 1 /\ Len(stdseries') = ns + 1
               /\ SubSeq(avgseries', 1, na) = avgseries
               /\ SubSeq(stdseries', 1, ns) = stdseries
               /\ avgseries'[na + 1].ts = now /\ stdseries'[ns + 1].ts = now
               /\ avgseries'[na + 1].val.num * N * series.den
                    = Sum(xs) * avgseries'[na + 1].val.den
               /\ stdseries'[ns + 1].val.num = N * VarN2(xs)
               /\ stdseries'[ns + 1].val.den
                    = N * N * N * series.den * series.den
               /\ series' = series]_vars

\* the statistics of a result that is not anomalous and of one that is
C20_Witness ==
  /\ evals = 2 /\ evalret # Nil /\ Value(evalret).is_anomaly
  /\ Len(avgseries) = 2 /\ Len(stdseries) = 2
  /\ avgseries[2].ts = now /\ avgseries[1].ts < now

(* C21: an evaluation of a metric whose key was never created and an       *)
(* evaluation that the store does not answer both return absent and raise  *)
(* nothing to the caller.                                                  *)
C21_MissingOrUnreachableAbsent ==
  [][(Evaluate /\ (~series.exists \/ ~reachable'))
       => evalret' = Nil /\ ~evalerr']_vars

(* ======================================================================= *)
(* get_anomalies, add_mitigation and verify_client called one at a time    *)
(* ======================================================================= *)
AUTO_BLOCK_VALUE == 100
AUTO_BLOCK_TTL == 3600
DEFAULT_DURATION == 300

\* calls of the three endpoints in a run
MaxCalls == 2

\* client identities under which track_requests records metrics
ClientIPs == {"10.0.0.1", "2001:db8::1"}

\* str.split(":")
Split(str) ==
  CASE str = "10.0.0.1" -> <<"10.0.0.1">>
    [] str = "2001:db8::1" -> <<"2001", "db8", "", "1">>
    [] str = "/api/verify" -> <<"/api/verify">>

(* A key of the store is kept as the sequence of its parts between the     *)
(* colons.                                                                 *)
GlobalKeys == <<(<<"ddos", "total_rps">>), (<<"ddos", "response_time">>),
                (<<"ddos", "error_rate">>)>>

\* f"ddos:path:{path}"
PathKey(path) == <<"ddos", "path">> \o Split(path)

\* f"ddos:ip:{client_ip}"
IpKey(client) == <<"ddos", "ip">> \o Split(client)

\* f"{metric}:avg", f"{metric}:std"
AvgKey(metric) == metric \o <<"avg">>
StdKey(metric) == metric \o <<"std">>

\* ":avg" not in key and ":std" not in key
IsMetricKey(key) ==
  \A k \in 2..Len(key) : key[k] # "avg" /\ key[k] # "std"

\* ip = key.split(":")[-1]
ExtractIP(key) == key[Len(key)]

\* SCAN MATCH "ddos:path:*": the path metric and the series evaluations
\* have derived from it
ScanPaths ==
  LET k == PathKey("/api/verify") IN <<k, AvgKey(k), StdKey(k)>>

\* SCAN MATCH "ddos:ip:*"
ScanIps ==
  LET k1 == IpKey("10.0.0.1")
      k2 == IpKey("2001:db8::1")
  IN <<k1, AvgKey(k1), StdKey(k1), k2, AvgKey(k2), StdKey(k2)>>

\* the identities a blocked entry can be written for
Targets == ClientIPs \cup {ExtractIP(IpKey(i)) : i \in ClientIPs}

\* what detect_anomalies can return for an IP metric: absent or a result
IpDetections ==
  {Nil, Some([value |-> AUTO_BLOCK_VALUE + 1, is_anomaly |-> FALSE])} \cup
  {Some([value |-> v, is_anomaly |-> TRUE]) :
     v \in {AUTO_BLOCK_VALUE, AUTO_BLOCK_VALUE + 1}}

\* and for a global or a path metric
OtherDetections ==
  {Nil, Some([value |-> AUTO_BLOCK_VALUE + 1, is_anomaly |-> TRUE])}

\* the metric keys of a scan, in scan order
MetricKeys(scan) == SelectSeq(scan, IsMetricKey)

\* the keys whose result is appended to anomalies, in order
Anomalous(keys, det) ==
  SelectSeq(keys, LAMBDA k : det[k] # Nil /\ Value(det[k]).is_anomaly)

\* top_ips.append((ip, ip_anomaly.value))
TopIps(det) ==
  LET ks == Anomalous(MetricKeys(ScanIps), det) IN
    [n \in 1..Len(ks) |-> [ip |-> ExtractIP(ks[n]), value |-> Value(det[ks[n]]).value]]

\* if value > 100:
ShouldAutoBlock(e, reg) == e.value > AUTO_BLOCK_VALUE

RECURSIVE AutoBlock(_, _, _, _)
(* for ip, value in top_ips: from entry n on, with the actuator answering  *)
(* outs[n]; st holds the blocked entries, the firewall's rules and the     *)
(* targets passed to the actuator so far.                                  *)
AutoBlock(top_ips, outs, n, st) ==
  IF n > Len(top_ips) \/ st.raised THEN st
  ELSE IF ~ShouldAutoBlock(top_ips[n], st.blocked)
    THEN AutoBlock(top_ips, outs, n + 1, st)
  ELSE LET target == top_ips[n].ip
           ret == AddToCloudflareBlocklist(outs[n])
           posted == [st EXCEPT !.fwrules = CreateRule(@, target, outs[n]),
                                !.calls = Append(@, target)]
       IN IF ret = Nil THEN [posted EXCEPT !.raised = TRUE]
          ELSE AutoBlock(top_ips, outs, n + 1,
                 [posted EXCEPT !.blocked[target] =
                    SetEx("auto_anomaly", AUTO_BLOCK_TTL)])

\* state of the rate limiter's caller and of the in-flight requests
tasks == <<locals, caller>>

\* what detect_anomalies returns for each evaluated metric: g for a global
\* or a path metric, d[i] for the metric of client i
Detected(g, d) ==
  LET others == GlobalKeys \o MetricKeys(ScanPaths) IN
    [k \in {others[n] : n \in 1..Len(others)} \cup {IpKey(i) : i \in ClientIPs} |->
       IF \E i \in ClientIPs : k = IpKey(i)
         THEN d[CHOOSE i \in ClientIPs : k = IpKey(i)]
         ELSE g]

\* a sweep whose first detect_anomalies call raised: no result was obtained
\* and the exception left get_anomalies, which has no handler for it
Unreached ==
  [det |-> Detected(Nil, [i \in ClientIPs |-> Nil]), anomalies |-> <<>>,
   calls |-> <<>>, raised |-> TRUE]

(* get_anomalies(redis_client), whole: det is what detect_anomalies        *)
(* returns for each metric, outs how the firewall answers each block call. *)
(* When the store is not reachable the first detect_anomalies call raises. *)
Sweep ==
  /\ requests < MaxCalls
  /\ requests' = requests + 1
  /\ reachable' \in BOOLEAN
  /\ IF ~reachable'
       THEN /\ swept' = Unreached
            /\ UNCHANGED <<blocked, fwrules>>
       ELSE
     \E g \in OtherDetections, d \in [ClientIPs -> IpDetections] :
       \E det \in {Detected(g, d)} :
         \E top_ips \in {TopIps(det)} :
           \E outs \in [1..Len(top_ips) -> ActuatorOutcomes] :
             \E done \in {AutoBlock(top_ips, outs, 1,
                            [blocked |-> blocked, fwrules |-> fwrules,
                             calls |-> <<>>, raised |-> FALSE])} :
               /\ blocked' = done.blocked
               /\ fwrules' = done.fwrules
               /\ swept' = [det |-> det,
                            anomalies |-> Anomalous(
                               GlobalKeys \o MetricKeys(ScanPaths)
                                 \o MetricKeys(ScanIps), det),
                            calls |-> done.calls,
                            raised |-> done.raised]
  /\ mitigated' = NoMitigation
  /\ vret' = NoVerify
  /\ called' = "get_anomalies"
  /\ UNCHANGED <<ratelimit, verified, challenged, monitored, intel, ticks, tasks,
                 now, series, avgseries, stdseries, evalret, evalerr, evals>>

(* ---- add_mitigation ------------------------------------------------------ *)
ActionTypes == {"block", "challenge", "monitor"}

\* action.duration
Durations == {0, DEFAULT_DURATION}

\* SET key value EX t is refused by the store unless t is positive
ValidExpire(t) == t > 0

\* the answer {"success": b}
Answer(req, outcome, b) ==
  [req |-> req, outcome |-> outcome, ret |-> Some(b), raised |-> FALSE]

\* the call ends with an exception
Fault(req, outcome) ==
  [req |-> req, outcome |-> outcome, ret |-> Nil, raised |-> TRUE]

\* else: just monitor the IP
Monitor(req, outcome) ==
  /\ IF ValidExpire(req.duration)
       THEN /\ monitored' = [monitored EXCEPT
                               ![req.target] = SetEx(req.reason, req.duration)]
            /\ mitigated' = Answer(req, None, TRUE)
       ELSE /\ UNCHANGED monitored
            /\ mitigated' = Fault(req, None)
  /\ UNCHANGED <<blocked, challenged, fwrules>>

\* bug: the entry is written whatever the firewall answered
Block_IgnoresActuator(req, outcome) ==
  /\ fwrules' = CreateRule(fwrules, req.target, outcome)
  /\ IF ValidExpire(req.duration)
       THEN /\ blocked' = [blocked EXCEPT
                             ![req.target] = SetEx(req.reason, req.duration)]
            /\ mitigated' = Answer(req, outcome, TRUE)
       ELSE mitigated' = Fault(req, outcome) /\ UNCHANGED blocked
  /\ UNCHANGED <<challenged, monitored>>

\* if action.action_type == "block":
Block(req, outcome) ==
  LET ret == AddToCloudflareBlocklist(outcome) IN
    /\ fwrules' = CreateRule(fwrules, req.target, outcome)
    /\ IF ret = Nil
         THEN mitigated' = Fault(req, outcome) /\ UNCHANGED blocked
         ELSE IF ~Value(ret)
         THEN mitigated' = Answer(req, outcome, FALSE) /\ UNCHANGED blocked
         ELSE IF ValidExpire(req.duration)
         THEN /\ blocked' = [blocked EXCEPT
                               ![req.target] = SetEx(req.reason, req.duration)]
              /\ mitigated' = Answer(req, outcome, TRUE)
         ELSE mitigated' = Fault(req, outcome) /\ UNCHANGED blocked
    /\ UNCHANGED <<challenged, monitored>>

\* elif action.action_type == "challenge": the rule is posted and the entry
\* written inside one try, whose except answers success False
Challenge(req, outcome) ==
  /\ IF outcome = "created" /\ ValidExpire(req.duration)
       THEN /\ challenged' = [challenged EXCEPT
                                ![req.target] = SetEx(req.reason, req.duration)]
            /\ mitigated' = Answer(req, outcome, TRUE)
       ELSE /\ UNCHANGED challenged
            /\ mitigated' = Answer(req, outcome, FALSE)
  /\ UNCHANGED <<blocked, monitored, fwrules>>

(* add_mitigation(action, redis_client), whole.                            *)
Mitigate ==
  /\ requests < MaxCalls
  /\ requests' = requests + 1
  /\ \E a \in ActionTypes, target \in IPs, dur \in Durations,
        outcome \in ActuatorOutcomes :
       LET req == [action_type |-> a, target |-> target, duration |-> dur,
                   reason |-> "manual"]
       IN CASE a = "block" -> Block(req, outcome)
            [] a = "challenge" -> Challenge(req, outcome)
            [] OTHER -> Monitor(req, outcome)
  /\ swept' = NoSweep
  /\ vret' = NoVerify
  /\ called' = "add_mitigation"
  /\ reachable' = TRUE
  /\ UNCHANGED <<ratelimit, verified, intel, ticks, tasks,
                 now, series, avgseries, stdseries, evalret, evalerr, evals>>

\* the VerificationResponse with verification_type r to client i
Response(i, r) ==
  [client |-> i, verification_type |-> r, verified |-> VerifiedField(r)]

(* verify_client(request, redis_client) for client i, whole, with no other *)
(* call in between.                                                        *)
VerifyClient ==
  /\ requests < MaxCalls
  /\ requests' = requests + 1
  /\ \E i \in IPs, st \in Statuses, outcome \in ActuatorOutcomes :
       LET c == ParseCount(Get(ratelimit[i]))
           r == [status |-> st, risk_score |-> IF st = 0 THEN 0 ELSE intel[i]]
       IN IF IsVerified(Get(verified[i]))
            THEN /\ vret' = Response(i, "cached")
                 /\ UNCHANGED <<ratelimit, verified, blocked, fwrules>>
          ELSE IF IsLimited(c)
            THEN /\ vret' = Response(i, "rate_limited")
                 /\ UNCHANGED <<ratelimit, verified, blocked, fwrules>>
          ELSE /\ ratelimit' = [ratelimit EXCEPT
                                  ![i] = IncrExpire(@, RATE_LIMIT_WINDOW)]
               /\ IF ThreatBlocks(CheckThreatIntel(r))
                    THEN /\ fwrules' = CreateRule(fwrules, i, outcome)
                         /\ blocked' = [blocked EXCEPT
                               ![i] = SetEx("threat_intel", THREAT_BLOCK_TTL)]
                         /\ vret' = Response(i, "threat_intel_blocked")
                         /\ UNCHANGED verified
                  ELSE IF Friction(AdmittedCount(c)) # "cookie"
                    THEN /\ vret' = Response(i, Friction(AdmittedCount(c)))
                         /\ UNCHANGED <<verified, blocked, fwrules>>
                  ELSE /\ verified' = [verified EXCEPT
                               ![i] = SetEx("cookie", VERIFIED_TTL)]
                       /\ vret' = Response(i, "cookie")
                       /\ UNCHANGED <<blocked, fwrules>>
  /\ swept' = NoSweep
  /\ mitigated' = NoMitigation
  /\ called' = "verify_client"
  /\ reachable' = TRUE
  /\ UNCHANGED <<challenged, monitored, intel, ticks, tasks,
                 now, series, avgseries, stdseries, evalret, evalerr, evals>>

(* d seconds pass between two calls.                                       *)
SweepTick ==
  /\ ticks < MaxTicks
  /\ ticks' = ticks + 1
  /\ \E d \in {DEFAULT_DURATION, AUTO_BLOCK_TTL} :
       /\ ratelimit' = [i \in IPs |-> Expire(ratelimit[i], d, NoCounter)]
       /\ verified' = [i \in IPs |-> Expire(verified[i], d, NoEntry)]
       /\ blocked' = [i \in Targets |-> Expire(blocked[i], d, NoEntry)]
       /\ challenged' = [i \in IPs |-> Expire(challenged[i], d, NoEntry)]
       /\ monitored' = [i \in IPs |-> Expire(monitored[i], d, NoEntry)]
  /\ UNCHANGED <<intel, requests, tasks, fwrules, swept, mitigated, vret, called,
                 reachable, now, series, avgseries, stdseries, evalret, evalerr, evals>>

(* An empty store, or the store one verify_client call answered with      *)
(* cookie has left.                                                        *)
SweepInit ==
  /\ \E v \in BOOLEAN :
       /\ ratelimit = [i \in IPs |->
            IF v THEN SetEx(1, RATE_LIMIT_WINDOW) ELSE NoCounter]
       /\ verified = [i \in IPs |->
            IF v THEN SetEx("cookie", VERIFIED_TTL) ELSE NoEntry]
  /\ blocked = [i \in Targets |-> NoEntry]
  /\ intel \in [IPs -> RiskScores]
  /\ fwrules = [i \in Targets |-> 0]
  /\ NoDetector
  /\ NoOperator
  /\ InitTasks

SweepNext == Sweep \/ Mitigate \/ VerifyClient \/ SweepTick

SweepSpec == SweepInit /\ [][SweepNext]_vars

\* a step of the run is one call of the endpoint op
Calls(op) == requests' = requests + 1 /\ called' = op

\* the result the last sweep got for the metric of client i asks for a block
Hot(sw, i) ==
  LET r == sw.det[IpKey(i)] IN
    r # Nil /\ Value(r).is_anomaly /\ Value(r).value > AUTO_BLOCK_VALUE

\* the targets of a sweep's block calls
Called(sw) == {sw.calls[n] : n \in 1..Len(sw.calls)}

(* C15: a sweep calls the actuator's block and writes blocked:<ip> with    *)
(* reason auto_anomaly for exactly the clients whose IP metric is          *)
(* anomalous with a latest value above 100; no other identity is blocked,  *)
(* whatever the global and path metrics show.                              *)
C15_AutoBlockExactlyHot ==
  [][Calls("get_anomalies") =>
       /\ \A i \in ClientIPs :
            IF Hot(swept', i)
              THEN /\ i \in Called(swept')
                   /\ blocked'[i] = SetEx("auto_anomaly", AUTO_BLOCK_TTL)
              ELSE i \notin Called(swept') /\ blocked'[i] = blocked[i]
       /\ Called(swept') \subseteq ClientIPs
       /\ \A x \in Targets \ ClientIPs : blocked'[x] = blocked[x]]_vars

(* C16: a sweep creates no firewall rule for a target that has a live      *)
(* blocked entry.                                                          *)
C16_SweepSkipsBlocked ==
  [][Calls("get_anomalies") => \A x \in Targets :
               Live(blocked[x]) => fwrules'[x] = fwrules[x]]_vars

(* C17: a mitigation of type monitor answers success = true, writes        *)
(* monitored:<target> = reason with TTL duration, creates no firewall rule *)
(* and writes no blocked or challenged entry.                              *)
C17_MonitorAlwaysSucceeds ==
  [][(Calls("add_mitigation") /\ mitigated'.req.action_type = "monitor") =>
       LET req == mitigated'.req IN
         /\ ~mitigated'.raised /\ mitigated'.ret = Some(TRUE)
         /\ monitored'[req.target] = SetEx(req.reason, req.duration)
         /\ UNCHANGED <<fwrules, blocked, challenged>>]_vars

(* C18: a mitigation of type block or challenge answers success exactly    *)
(* when the firewall created the rule, writes its entry with the reason    *)
(* and TTL of the request exactly then, and raises nothing.                *)
C18_EntryIffActuatorSucceeded ==
  [][(Calls("add_mitigation") /\ mitigated'.req.action_type \in {"block", "challenge"}) =>
       LET req == mitigated'.req
           ok == mitigated'.outcome = "created"
       IN /\ ~mitigated'.raised /\ mitigated'.ret = Some(ok)
          /\ IF ok
               THEN IF req.action_type = "block"
                      THEN blocked'[req.target] = SetEx(req.reason, req.duration)
                      ELSE challenged'[req.target]
                             = SetEx(req.reason, req.duration)
               ELSE UNCHANGED <<blocked, challenged>>
          /\ UNCHANGED monitored]_vars

(* C19: a sweep or a mitigation leaves every verified entry as it is, and  *)
(* a verification of a client that has both a live verified and a live     *)
(* blocked entry answers verified/cached and leaves both entries.          *)
C19_VerifiedAndBlockedCoexist ==
  [][/\ (Calls("get_anomalies") \/ Calls("add_mitigation"))
          => UNCHANGED verified
     /\ (Calls("verify_client") /\ Live(verified[vret'.client])
                      /\ Live(blocked[vret'.client]))
          => /\ vret'.verification_type = "cached" /\ vret'.verified
             /\ UNCHANGED <<verified, blocked>>]_vars

\* a client verified by cookie, then blocked by a sweep, is answered cached
C19_Witness ==
  /\ vret.verification_type = "cached" /\ vret.verified
  /\ Live(verified[vret.client])
  /\ Live(blocked[vret.client])
  /\ blocked[vret.client].val = "auto_anomaly"

\* the clients whose IP metric asked the last sweep for a block
HotClients(sw) == {i \in ClientIPs : Hot(sw, i)}

(* C22: the targets a sweep passes to the actuator and the keys of the     *)
(* blocked entries it writes are the client identities under which         *)
(* track_requests recorded the anomalous metrics, in full, also when the   *)
(* identity contains colons; no other identity is blocked.                 *)
C22_BlocksFullIdentity ==
  [][Calls("get_anomalies") =>
       /\ Called(swept') = HotClients(swept')
       /\ \A x \in Targets :
            blocked'[x] # blocked[x] => x \in HotClients(swept')]_vars

\* target x has a live blocked entry with this reason
BlockedFor(x, reason) == Live(blocked[x]) /\ blocked[x].val = reason

(* C23: a verification that answers threat_intel_blocked and a sweep write *)
(* blocked:<ip> with TTL 3600 for every target they pass to the actuator,  *)
(* whatever the actuator answers; a mitigation writes a blocked entry only *)
(* for the target of a block request whose rule the firewall created, so   *)
(* every live entry written by a mitigation has a rule in the firewall.    *)
C23_AutoBlockIgnoresActuator ==
  [][/\ (Calls("verify_client") /\ vret'.verification_type = "threat_intel_blocked")
          => blocked'[vret'.client] = SetEx("threat_intel", THREAT_BLOCK_TTL)
     /\ Calls("get_anomalies")
          => \A x \in Called(swept') :
               blocked'[x] = SetEx("auto_anomaly", AUTO_BLOCK_TTL)
     /\ Calls("add_mitigation")
          => \A x \in Targets :
               blocked'[x] # blocked[x]
                 => /\ mitigated'.req.action_type = "block"
                    /\ mitigated'.req.target = x
                    /\ mitigated'.outcome = "created"
                    /\ fwrules'[x] = fwrules[x] + 1
     /\ \A x \in Targets : BlockedFor(x, "manual")' => fwrules'[x] > 0]_vars

\* an entry written by a verification and one written by a sweep, both live,
\* for targets the firewall holds no rule for
C23_Witness ==
  /\ \E x \in Targets : BlockedFor(x, "threat_intel") /\ fwrules[x] = 0
  /\ \E x \in Targets : BlockedFor(x, "auto_anomaly") /\ fwrules[x] = 0

====
